---- MODULE Spec2Model ----
(***************************************************************************)
(* Model of the health / diet tools of the personal assistant              *)
(* (personal_assistant/mcp_tools/health_diet_tools.py).                    *)
(*                                                                         *)
(* The five tools are add_health_goal, update_health_goal,                 *)
(* get_health_goals, add_food_log and get_food_log.  Each call asks        *)
(* supabase_manager.is_connected() and is then serviced either by the      *)
(* remote store or by the module-level health_goals dict and food_logs     *)
(* list.  Every tool returns a text; the model keeps the parts of the      *)
(* text the properties are about in the record `result`.                   *)
(*                                                                         *)
(* Python's None is the empty sequence <<>>, a present value v is <<v>>.   *)
(* Numbers are small integers (the code's floats hold the same values).    *)
(* uuid4() identifiers are 1, 2, ... in the local store; identifiers       *)
(* generated by the remote store are -1, -2, ...                           *)
(***************************************************************************)
EXTENDS Integers, Sequences, FiniteSets, TLC

\* ------------------------------------------------------------------ bounds
\* MaxRecords bounds Spec, MaxGoals bounds SpecGoals, MaxAddGoals bounds
\* SpecAdd, MaxUpdateGoals bounds SpecUpdate, MaxCalorieGoals bounds
\* SpecCalories, MaxFoods and MaxDay bound SpecFood and SpecCalories.
MaxRecords == 3
MaxGoals == 2
MaxAddGoals == 3
MaxUpdateGoals == 2
MaxCalorieGoals == 2
MaxFoods == 3
MaxDay == 1
MaxLogFoods == 2
MaxEarliestGoals == 3
MaxEarliestFoods == 1

\* ------------------------------------------------------- python primitives
None == <<>>

Some(v) == <<v>>

\* `if x:` on an Optional number: None and 0 are falsy.
Truthy(opt) == opt # None /\ opt[1] # 0

\* str.lower() on the strings the model uses.
Lower(s) ==
    CASE s = "Weight" -> "weight"
      [] s = "Daily_Calories" -> "daily_calories"
      [] s = "Lunch" -> "lunch"
      [] s = "Dinner" -> "dinner"
      [] OTHER -> s

\* str.title() on the strings the model uses.
Title(s) ==
    CASE s = "weight" -> "Weight"
      [] s = "daily_calories" -> "Daily_Calories"
      [] s = "lunch" -> "Lunch"
      [] s = "dinner" -> "Dinner"
      [] OTHER -> s

Abs(n) == IF n < 0 THEN -n ELSE n

\* f"{num / den * 100:.1f}" in tenths of a percent: the quotient rounded to
\* the nearest tenth, an exact tie going to the even tenth.
FormatTenths(num, den) ==
    LET n == IF den < 0 THEN -(num * 1000) ELSE num * 1000
        d == Abs(den)
        q == n \div d
        r == n % d
    IN  IF 2 * r < d THEN q
        ELSE IF 2 * r > d THEN q + 1
        ELSE IF q % 2 = 0 THEN q ELSE q + 1

\* ------------------------------------------------------------------- state
\* connected:    what supabase_manager.is_connected() returns now
\* today:        date.today()
\* health_goals: the local dict, in insertion order
\* food_logs:    the local list
\* remote_goals: the health goals held by the remote store
\* remote_foods: the food logs held by the remote store
\* result:       the text returned by the last tool call
\* trace:        what the last tool call was given, touched and ran into
\* updated:      the goal ids a successful update_health_goal has targeted
VARIABLES connected, today, health_goals, food_logs, remote_goals, remote_foods, result, trace, updated

vars == <<connected, today, health_goals, food_logs, remote_goals, remote_foods, result, trace, updated>>

\* What the environment can make a call run into: nothing, is_connected()
\* raising, or the k-th remote-store data operation of the call raising.
FailPoints == {"none", "is_connected", "op1", "op2", "op3"}

NoResult ==
    [op |-> "none", text |-> "", error |-> None, ids |-> <<>>,
     goals |-> <<>>, meals |-> <<>>, total |-> None, commentary |-> None]

NoTrace ==
    [is_connected |-> "none", local_read |-> FALSE, local_write |-> FALSE,
     remote_ops |-> <<>>, raised |-> None, today |-> 0, args |-> <<>>]

\* Faulty variant of ErrorText: one label pasted into every tool.
ErrorTextPasted(op) == "Error adding health goal"

\* The `except Exception as e: return f"Error <doing X>: {str(e)}"` line of
\* each tool.
ErrorText(op) ==
    CASE op = "add_health_goal" -> "Error adding health goal"
      [] op = "update_health_goal" -> "Error updating health goal"
      [] op = "get_health_goals" -> "Error getting health goals"
      [] op = "add_food_log" -> "Error adding food log"
      [] op = "get_food_log" -> "Error getting food log"

ErrorResult(op, e) ==
    [NoResult EXCEPT !.op = op, !.text = ErrorText(op), !.error = Some(e)]

\* The outcome of a call: the four stores after it, the text and the trace.
Outcome(hg, fl, rg, rf, res, tr) ==
    [health_goals |-> hg, food_logs |-> fl, remote_goals |-> rg,
     remote_foods |-> rf, result |-> res, trace |-> tr]

\* Faulty variant of UseRemote: the first answer of is_connected() is kept and
\* used by every later call.
UseRemoteCached ==
    IF trace.is_connected \in {"True", "False"}
    THEN trace.is_connected = "True"
    ELSE connected

\* `if supabase_manager.is_connected():` evaluated in the call.
UseRemote == connected

\* What a call did: what is_connected() gave it, whether it read and wrote
\* health_goals / food_logs, the remote-store operations it invoked, and
\* the exception raised in it (None: none was).
TraceOf(conn, lr, lw, ops, raised) ==
    [is_connected |-> conn, local_read |-> lr, local_write |-> lw,
     remote_ops |-> ops, raised |-> raised, today |-> today, args |-> <<>>]

\* is_connected() itself raised: the catch-all returns the error text.
ConnectFailure(op) ==
    Outcome(health_goals, food_logs, remote_goals, remote_foods,
            ErrorResult(op, "ConnectError"),
            TraceOf("raise", FALSE, FALSE, <<>>, Some("is_connected")))

\* ------------------------------------------------------------ remote store
\* The remote store client: add_health_goal(dict) -> id.
RemoteAddHealthGoal(goals, data) ==
    Append(goals, [data EXCEPT !.goal_id = -(Len(goals) + 1)])

\* update_health_goal(id, dict) -> bool: whether the goal exists ...
RemoteHasGoal(goals, goal_id) ==
    \E i \in 1..Len(goals) : goals[i].goal_id = goal_id

\* ... and the goals after the update.
RemoteUpdateHealthGoal(goals, goal_id, updates) ==
    [i \in 1..Len(goals) |->
        IF goals[i].goal_id = goal_id
        THEN [k \in DOMAIN goals[i] |->
                 IF k \in DOMAIN updates THEN updates[k] ELSE goals[i][k]]
        ELSE goals[i]]

\* get_health_goals() -> list[dict].
RemoteGetHealthGoals(goals) == SelectSeq(goals, LAMBDA g : g.is_active)

\* add_food_log(dict) -> id.
RemoteAddFoodLog(foods, data) ==
    Append(foods, [data EXCEPT !.food_id = -(Len(foods) + 1)])

\* get_food_logs(date) -> list[dict].
RemoteGetFoodLogs(foods, d) == SelectSeq(foods, LAMBDA f : f.date = d)

\* ---------------------------------------------------------- add_health_goal
\* goal_data of the local branch (created_at, a time stamp no tool reads,
\* is left out).
GoalData(goal_id, goal_type, target_value, description) ==
    [goal_id |-> goal_id, goal_type |-> goal_type,
     target_value |-> target_value, current_value |-> 0,
     description |-> description]

\* goal_data of the remote branch; the store fills in the id.
RemoteGoalData(goal_type, target_value, description) ==
    [goal_id |-> 0, goal_type |-> goal_type, target_value |-> target_value,
     current_value |-> 0, description |-> description, is_active |-> TRUE]

AddedText(local) ==
    IF local THEN "Health goal added successfully! (Local Storage)"
    ELSE "Health goal added successfully!"

\* Faulty variant of WantsCalorieGoal: `if daily_calorie_goal is not None:`.
WantsCalorieGoalNotNone(daily_calorie_goal) == daily_calorie_goal # None

\* `if daily_calorie_goal:` of add_health_goal.
WantsCalorieGoal(daily_calorie_goal) == Truthy(daily_calorie_goal)

\* health_goals[goal_id] = goal_data
DictSet(goals, goal_data) ==
    IF \E i \in 1..Len(goals) : goals[i].goal_id = goal_data.goal_id
    THEN [i \in 1..Len(goals) |->
             IF goals[i].goal_id = goal_data.goal_id THEN goal_data
             ELSE goals[i]]
    ELSE Append(goals, goal_data)

\* str(uuid.uuid4()) for a key of the health_goals dict: a fresh one.
NewGoalId(goals) == Len(goals) + 1

add_health_goal_local(goal_type, target_value, description, daily_calorie_goal) ==
    LET goal_id == NewGoalId(health_goals)
        hg1 == DictSet(health_goals,
                       GoalData(goal_id, Lower(goal_type), target_value,
                                description))
        calorie_goal_id == NewGoalId(hg1)
        hg2 == DictSet(hg1,
                       GoalData(calorie_goal_id, "daily_calories",
                                daily_calorie_goal[1],
                                Some("Daily calorie intake target")))
        res == [NoResult EXCEPT !.op = "add_health_goal",
                                !.text = AddedText(TRUE)]
        tr == TraceOf("False", FALSE, TRUE, <<>>, None)
    IN  IF WantsCalorieGoal(daily_calorie_goal)
        THEN Outcome(hg2, food_logs, remote_goals, remote_foods,
                     [res EXCEPT !.ids = <<goal_id, calorie_goal_id>>], tr)
        ELSE Outcome(hg1, food_logs, remote_goals, remote_foods,
                     [res EXCEPT !.ids = <<goal_id>>], tr)

add_health_goal_remote(goal_type, target_value, description, daily_calorie_goal, fail) ==
    LET desc == IF description = None THEN Some("") ELSE description
        rg1 == RemoteAddHealthGoal(remote_goals,
                   RemoteGoalData(Lower(goal_type), target_value, desc))
        goal_id == rg1[Len(rg1)].goal_id
        rg2 == RemoteAddHealthGoal(rg1,
                   RemoteGoalData("daily_calories", daily_calorie_goal[1],
                                  Some("Daily calorie intake target")))
        calorie_goal_id == rg2[Len(rg2)].goal_id
        res == [NoResult EXCEPT !.op = "add_health_goal",
                                !.text = AddedText(FALSE)]
        err == ErrorResult("add_health_goal", "RemoteError")
        ops1 == <<"add_health_goal">>
        ops2 == <<"add_health_goal", "add_health_goal">>
    IN  IF fail = "op1"
        THEN Outcome(health_goals, food_logs, remote_goals, remote_foods, err,
                     TraceOf("True", FALSE, FALSE, ops1,
                             Some("add_health_goal")))
        ELSE IF ~WantsCalorieGoal(daily_calorie_goal)
        THEN Outcome(health_goals, food_logs, rg1, remote_foods,
                     [res EXCEPT !.ids = <<goal_id>>],
                     TraceOf("True", FALSE, FALSE, ops1, None))
        ELSE IF fail = "op2"
        THEN Outcome(health_goals, food_logs, rg1, remote_foods, err,
                     TraceOf("True", FALSE, FALSE, ops2,
                             Some("add_health_goal")))
        ELSE Outcome(health_goals, food_logs, rg2, remote_foods,
                     [res EXCEPT !.ids = <<goal_id, calorie_goal_id>>],
                     TraceOf("True", FALSE, FALSE, ops2, None))

add_health_goal(goal_type, target_value, description, daily_calorie_goal, fail) ==
    IF fail = "is_connected" THEN ConnectFailure("add_health_goal")
    ELSE IF UseRemote
    THEN add_health_goal_remote(goal_type, target_value, description,
                                daily_calorie_goal, fail)
    ELSE add_health_goal_local(goal_type, target_value, description,
                               daily_calorie_goal)

\* ------------------------------------------------------- update_health_goal
\* Faulty variant of ApplyUpdates: the description is assigned without the
\* `is not None` test.
ApplyUpdatesDescription(goal, target_value, current_value, description) ==
    [goal EXCEPT
        !.target_value =
            IF target_value # None THEN target_value[1] ELSE @,
        !.current_value =
            IF current_value # None THEN current_value[1] ELSE @,
        !.description = description]

\* The three `if <field> is not None: goal[<field>] = <field>` statements.
ApplyUpdates(goal, target_value, current_value, description) ==
    [goal EXCEPT
        !.target_value =
            IF target_value # None THEN target_value[1] ELSE @,
        !.current_value =
            IF current_value # None THEN current_value[1] ELSE @,
        !.description = IF description # None THEN description ELSE @]

\* `goal_id in health_goals`
InHealthGoals(goal_id) ==
    \E i \in 1..Len(health_goals) : health_goals[i].goal_id = goal_id

\* `if goal_id not in health_goals: return f"Health goal {goal_id} not found"`
NotFoundLocal(goal_id) ==
    Outcome(health_goals, food_logs, remote_goals, remote_foods,
            [NoResult EXCEPT !.op = "update_health_goal",
                             !.text = "Health goal not found",
                             !.ids = <<goal_id>>],
            TraceOf("False", TRUE, FALSE, <<>>, None))

\* goal = health_goals[goal_id], updated in place.
UpdateFoundLocal(goal_id, target_value, current_value, description) ==
    LET hg == [i \in 1..Len(health_goals) |->
                  IF health_goals[i].goal_id = goal_id
                  THEN ApplyUpdates(health_goals[i], target_value,
                                    current_value, description)
                  ELSE health_goals[i]]
        goal == CHOOSE g \in {hg[i] : i \in 1..Len(hg)} :
                    g.goal_id = goal_id
    IN  Outcome(hg, food_logs, remote_goals, remote_foods,
                [NoResult EXCEPT
                    !.op = "update_health_goal",
                    !.text = "Health goal updated successfully! (Local Storage)",
                    !.ids = <<goal_id>>,
                    !.goals = <<[goal_type |-> Title(goal.goal_type),
                                 target_value |-> goal.target_value,
                                 current_value |-> goal.current_value]>>],
                TraceOf("False", TRUE, TRUE, <<>>, None))

\* Faulty variant of update_health_goal_local: an unknown id is given a new record
\* (the `not in` test replaced by a setdefault).
update_health_goal_local_upsert(goal_id, target_value, current_value, description) ==
    IF ~InHealthGoals(goal_id)
    THEN Outcome(Append(health_goals,
                        ApplyUpdates(GoalData(goal_id, "", 0, None),
                                     target_value, current_value,
                                     description)),
                 food_logs, remote_goals, remote_foods,
                 [NoResult EXCEPT
                     !.op = "update_health_goal",
                     !.text = "Health goal updated successfully! (Local Storage)",
                     !.ids = <<goal_id>>],
                 TraceOf("False", TRUE, TRUE, <<>>, None))
    ELSE UpdateFoundLocal(goal_id, target_value, current_value, description)

update_health_goal_local(goal_id, target_value, current_value, description) ==
    IF ~InHealthGoals(goal_id) THEN NotFoundLocal(goal_id)
    ELSE UpdateFoundLocal(goal_id, target_value, current_value, description)

\* The `updates` dict built for the remote store.
Updates(target_value, current_value, description) ==
    LET keys == (IF target_value # None THEN {"target_value"} ELSE {})
                \cup (IF current_value # None THEN {"current_value"} ELSE {})
                \cup (IF description # None THEN {"description"} ELSE {})
    IN  [k \in keys |->
            IF k = "target_value" THEN target_value[1]
            ELSE IF k = "current_value" THEN current_value[1]
            ELSE description]

update_health_goal_remote(goal_id, target_value, current_value, description, fail) ==
    LET updates == Updates(target_value, current_value, description)
        ops == <<"update_health_goal">>
    IN  IF fail = "op1"
        THEN Outcome(health_goals, food_logs, remote_goals, remote_foods,
                     ErrorResult("update_health_goal", "RemoteError"),
                     TraceOf("True", FALSE, FALSE, ops,
                             Some("update_health_goal")))
        ELSE IF RemoteHasGoal(remote_goals, goal_id)
        THEN Outcome(health_goals, food_logs,
                     RemoteUpdateHealthGoal(remote_goals, goal_id, updates),
                     remote_foods,
                     [NoResult EXCEPT
                         !.op = "update_health_goal",
                         !.text = "Health goal updated successfully!",
                         !.ids = <<goal_id>>],
                     TraceOf("True", FALSE, FALSE, ops, None))
        ELSE Outcome(health_goals, food_logs, remote_goals, remote_foods,
                     [NoResult EXCEPT
                         !.op = "update_health_goal",
                         !.text = "Health goal not found or update failed",
                         !.ids = <<goal_id>>],
                     TraceOf("True", FALSE, FALSE, ops, None))

update_health_goal(goal_id, target_value, current_value, description, fail) ==
    IF fail = "is_connected" THEN ConnectFailure("update_health_goal")
    ELSE IF UseRemote
    THEN update_health_goal_remote(goal_id, target_value, current_value,
                                   description, fail)
    ELSE update_health_goal_local(goal_id, target_value, current_value,
                                  description)

\* --------------------------------------------------------- get_health_goals
\* Faulty variant of IsActive: goal.get("is_active"), without the default.
IsActiveNoDefault(goal) == "is_active" \in DOMAIN goal /\ goal.is_active

\* goal.get("is_active", True)
IsActive(goal) ==
    IF "is_active" \in DOMAIN goal THEN goal.is_active ELSE TRUE

\* Faulty variant of ProgressGuard: `... if goal["target_value"] != 0 else 0`.
ProgressGuardNonZero(target_value) == target_value # 0

\* `... if goal["target_value"] > 0 else 0`
ProgressGuard(target_value) == target_value > 0

\* progress of one goal as f"{progress:.1f}%" prints it, in tenths of a
\* percent; None when the division raises ZeroDivisionError.
Progress(goal) ==
    IF ~ProgressGuard(goal.target_value) THEN Some(0)
    ELSE IF goal.target_value = 0 THEN None
    ELSE Some(FormatTenths(goal.current_value, goal.target_value))

\* The block of lines get_health_goals prints for one goal.
GoalLines(goal) ==
    [goal_type |-> Title(goal.goal_type),
     target_value |-> goal.target_value,
     current_value |-> goal.current_value,
     progress |-> Progress(goal)[1],
     description |-> goal.description,
     goal_id |-> goal.goal_id]

\* The `for goal in goals:` loop: the text, or the error when it raised.
ListGoals(local, goals, tr) ==
    IF \E i \in 1..Len(goals) : Progress(goals[i]) = None
    THEN Outcome(health_goals, food_logs, remote_goals, remote_foods,
                 ErrorResult("get_health_goals", "ZeroDivisionError"),
                 [tr EXCEPT !.raised = Some("ZeroDivisionError")])
    ELSE Outcome(health_goals, food_logs, remote_goals, remote_foods,
                 [NoResult EXCEPT
                     !.op = "get_health_goals",
                     !.text = IF local
                              THEN "Active Health Goals (Local Storage)"
                              ELSE "Active Health Goals",
                     !.goals = [i \in 1..Len(goals) |-> GoalLines(goals[i])]],
                 tr)

NoGoalsResult(local) ==
    [NoResult EXCEPT
        !.op = "get_health_goals",
        !.text = IF local
                 THEN "No active health goals found. Add a goal to get started! (Local Storage)"
                 ELSE "No active health goals found. Add a goal to get started!"]

get_health_goals_local ==
    LET active_goals == SelectSeq(health_goals, IsActive)
        tr == TraceOf("False", TRUE, FALSE, <<>>, None)
    IN  IF active_goals = <<>>
        THEN Outcome(health_goals, food_logs, remote_goals, remote_foods,
                     NoGoalsResult(TRUE), tr)
        ELSE ListGoals(TRUE, active_goals, tr)

get_health_goals_remote(fail) ==
    LET goals == RemoteGetHealthGoals(remote_goals)
        ops == <<"get_health_goals">>
        tr == TraceOf("True", FALSE, FALSE, ops, None)
    IN  IF fail = "op1"
        THEN Outcome(health_goals, food_logs, remote_goals, remote_foods,
                     ErrorResult("get_health_goals", "RemoteError"),
                     TraceOf("True", FALSE, FALSE, ops,
                             Some("get_health_goals")))
        ELSE IF goals = <<>>
        THEN Outcome(health_goals, food_logs, remote_goals, remote_foods,
                     NoGoalsResult(FALSE), tr)
        ELSE ListGoals(FALSE, goals, tr)

get_health_goals(fail) ==
    IF fail = "is_connected" THEN ConnectFailure("get_health_goals")
    ELSE IF UseRemote THEN get_health_goals_remote(fail)
    ELSE get_health_goals_local

\* ------------------------------------------------------------- add_food_log
FoodData(food_id, meal_type, food_item, calories, d) ==
    [food_id |-> food_id, meal_type |-> meal_type, food_item |-> food_item,
     calories |-> calories, date |-> d]

\* f.get("calories", 0): the key is always there, so an absent calorie
\* count comes back as None and never as the default 0.
GetCalories(f) == f.calories

\* sum(f.get("calories", 0) for f in today_foods): adding None to an int
\* raises TypeError; the result is None then, and <<total>> otherwise.
RECURSIVE SumCalories(_)
SumCalories(foods) ==
    IF foods = <<>> THEN Some(0)
    ELSE LET rest == SumCalories(SubSeq(foods, 1, Len(foods) - 1))
             c == GetCalories(foods[Len(foods)])
         IN  IF rest = None \/ c = None THEN None
             ELSE Some(rest[1] + c[1])

\* [f for f in food_logs if f["date"] == today]
TodayFoods(foods) == SelectSeq(foods, LAMBDA f : f.date = today)

\* Faulty variant of FindDailyCalorieGoal: the loop without its `break`, so
\* the last "daily_calories" goal wins.
FindDailyCalorieGoalLast(goals) ==
    LET found == {i \in 1..Len(goals) :
                     goals[i].goal_type = "daily_calories" /\ IsActive(goals[i])}
    IN  IF found = {} THEN None
        ELSE Some(goals[CHOOSE i \in found : \A j \in found : j <= i].target_value)

\* The loop that looks for the daily calorie goal: the target of the first
\* goal of type "daily_calories" (active, where the flag is stored).
RECURSIVE FindDailyCalorieGoal(_)
FindDailyCalorieGoal(goals) ==
    IF goals = <<>> THEN None
    ELSE IF Head(goals).goal_type = "daily_calories" /\ IsActive(Head(goals))
    THEN Some(Head(goals).target_value)
    ELSE FindDailyCalorieGoal(Tail(goals))

\* Faulty variant of HasRemaining: the comparison turned round.
HasRemainingSwapped(remaining) == remaining < 0

\* `if remaining > 0:` of the goal commentary.
HasRemaining(remaining) == remaining > 0

\* The lines appended `if daily_calorie_goal:`.
Commentary(daily_calorie_goal, total_calories) ==
    IF ~Truthy(daily_calorie_goal) THEN None
    ELSE LET goal == daily_calorie_goal[1]
             remaining == goal - total_calories
         IN  Some([goal |-> goal,
                   progress |-> FormatTenths(total_calories, goal),
                   line |-> IF HasRemaining(remaining) THEN "Remaining"
                            ELSE "Over goal by",
                   amount |-> IF HasRemaining(remaining) THEN remaining
                              ELSE Abs(remaining)])

\* str(uuid.uuid4()) for an element of the food_logs list.
NewFoodId(foods) == Len(foods) + 1

FoodLoggedResult(local, food_id, total, commentary) ==
    [NoResult EXCEPT
        !.op = "add_food_log",
        !.text = IF local THEN "Food logged successfully! (Local Storage)"
                 ELSE "Food logged successfully!",
        !.ids = <<food_id>>,
        !.total = total,
        !.commentary = commentary]

\* Faulty variant of add_food_log_local: food_logs.insert(0, food_data).
add_food_log_local_prepend(meal_type, food_item, calories) ==
    LET food_id == NewFoodId(food_logs)
        fl == <<FoodData(food_id, Lower(meal_type), food_item, calories,
                         today)>> \o food_logs
        total_calories == SumCalories(TodayFoods(fl))
        tr == TraceOf("False", TRUE, TRUE, <<>>, None)
    IN  IF total_calories = None
        THEN Outcome(health_goals, fl, remote_goals, remote_foods,
                     ErrorResult("add_food_log", "TypeError"),
                     [tr EXCEPT !.raised = Some("TypeError")])
        ELSE Outcome(health_goals, fl, remote_goals, remote_foods,
                     FoodLoggedResult(TRUE, food_id, total_calories,
                         Commentary(FindDailyCalorieGoal(health_goals),
                                    total_calories[1])),
                     tr)

add_food_log_local(meal_type, food_item, calories) ==
    LET food_id == NewFoodId(food_logs)
        fl == Append(food_logs,
                     FoodData(food_id, Lower(meal_type), food_item, calories,
                              today))
        total_calories == SumCalories(TodayFoods(fl))
        tr == TraceOf("False", TRUE, TRUE, <<>>, None)
    IN  IF total_calories = None
        THEN Outcome(health_goals, fl, remote_goals, remote_foods,
                     ErrorResult("add_food_log", "TypeError"),
                     [tr EXCEPT !.raised = Some("TypeError")])
        ELSE Outcome(health_goals, fl, remote_goals, remote_foods,
                     FoodLoggedResult(TRUE, food_id, total_calories,
                         Commentary(FindDailyCalorieGoal(health_goals),
                                    total_calories[1])),
                     tr)

add_food_log_remote(meal_type, food_item, calories, fail) ==
    LET rf == RemoteAddFoodLog(remote_foods,
                  FoodData(0, Lower(meal_type), food_item, calories, today))
        food_id == rf[Len(rf)].food_id
        total_calories == SumCalories(RemoteGetFoodLogs(rf, today))
        goals == RemoteGetHealthGoals(remote_goals)
        ops1 == <<"add_food_log">>
        ops2 == <<"add_food_log", "get_food_logs">>
        ops3 == <<"add_food_log", "get_food_logs", "get_health_goals">>
    IN  IF fail = "op1"
        THEN Outcome(health_goals, food_logs, remote_goals, remote_foods,
                     ErrorResult("add_food_log", "RemoteError"),
                     TraceOf("True", FALSE, FALSE, ops1, Some("add_food_log")))
        ELSE IF fail = "op2"
        THEN Outcome(health_goals, food_logs, remote_goals, rf,
                     ErrorResult("add_food_log", "RemoteError"),
                     TraceOf("True", FALSE, FALSE, ops2, Some("get_food_logs")))
        ELSE IF total_calories = None
        THEN Outcome(health_goals, food_logs, remote_goals, rf,
                     ErrorResult("add_food_log", "TypeError"),
                     TraceOf("True", FALSE, FALSE, ops2, Some("TypeError")))
        ELSE IF fail = "op3"
        THEN Outcome(health_goals, food_logs, remote_goals, rf,
                     FoodLoggedResult(FALSE, food_id, total_calories, None),
                     TraceOf("True", FALSE, FALSE, ops3, Some("get_health_goals")))
        ELSE Outcome(health_goals, food_logs, remote_goals, rf,
                     FoodLoggedResult(FALSE, food_id, total_calories,
                         Commentary(FindDailyCalorieGoal(goals),
                                    total_calories[1])),
                     TraceOf("True", FALSE, FALSE, ops3, None))

\* Faulty variant of add_food_log: when the remote insert fails the entry is
\* written to the local list instead.
add_food_log_fallback(meal_type, food_item, calories, fail) ==
    IF fail = "is_connected" THEN ConnectFailure("add_food_log")
    ELSE IF UseRemote /\ fail = "op1"
    THEN LET out == add_food_log_local(meal_type, food_item, calories)
         IN  [out EXCEPT !.trace =
                 [@ EXCEPT !.is_connected = "True",
                           !.remote_ops = <<"add_food_log">>,
                           !.raised = Some("add_food_log")]]
    ELSE IF UseRemote
    THEN add_food_log_remote(meal_type, food_item, calories, fail)
    ELSE add_food_log_local(meal_type, food_item, calories)

add_food_log(meal_type, food_item, calories, fail) ==
    IF fail = "is_connected" THEN ConnectFailure("add_food_log")
    ELSE IF UseRemote
    THEN add_food_log_remote(meal_type, food_item, calories, fail)
    ELSE add_food_log_local(meal_type, food_item, calories)

\* ------------------------------------------------------------- get_food_log
\* The keys of the `meals` dict, in the order the grouping loop adds them.
RECURSIVE MealOrder(_)
MealOrder(foods) ==
    IF foods = <<>> THEN <<>>
    ELSE LET before == MealOrder(SubSeq(foods, 1, Len(foods) - 1))
             m == foods[Len(foods)].meal_type
         IN  IF \E i \in 1..Len(before) : before[i] = m THEN before
             ELSE Append(before, m)

\* meals[meal_type]: the day's entries of one meal, in list order.
MealFoods(foods, meal_type) ==
    SelectSeq(foods, LAMBDA f : f.meal_type = meal_type)

\* The lines printed for one meal: the title, one line per food (with
\* "(<n> cal)" `if food.get("calories")`), and "Meal Total" `if
\* meal_calories > 0`.  meal_calories is None when the += raised.
MealBlock(foods, meal_type) ==
    LET mine == MealFoods(foods, meal_type)
        meal_calories == SumCalories(mine)
    IN  [meal_type |-> Title(meal_type),
         foods |-> [i \in 1..Len(mine) |->
                       [food_item |-> mine[i].food_item,
                        food_id |-> mine[i].food_id,
                        cal |-> IF Truthy(mine[i].calories)
                                THEN mine[i].calories ELSE None]],
         meal_calories |-> meal_calories,
         meal_total |-> IF meal_calories # None /\ meal_calories[1] > 0
                        THEN meal_calories ELSE None]

MealBlocks(foods) ==
    LET order == MealOrder(foods)
    IN  [i \in 1..Len(order) |-> MealBlock(foods, order[i])]

\* total_calories += meal_calories over the meals; None when a += raised.
RECURSIVE DailyTotal(_)
DailyTotal(blocks) ==
    IF blocks = <<>> THEN Some(0)
    ELSE LET rest == DailyTotal(SubSeq(blocks, 1, Len(blocks) - 1))
             c == blocks[Len(blocks)].meal_calories
         IN  IF rest = None \/ c = None THEN None
             ELSE Some(rest[1] + c[1])

FoodLogResult(local, blocks, total, commentary) ==
    [NoResult EXCEPT
        !.op = "get_food_log",
        !.text = IF local THEN "Today's Food Log (Local Storage)"
                 ELSE "Today's Food Log",
        !.meals = blocks,
        !.total = total,
        !.commentary = commentary]

NoFoodResult(local) ==
    [NoResult EXCEPT
        !.op = "get_food_log",
        !.text = IF local THEN "No food logged today (Local Storage)"
                 ELSE "No food logged today"]

get_food_log_local ==
    LET today_foods == TodayFoods(food_logs)
        blocks == MealBlocks(today_foods)
        total_calories == DailyTotal(blocks)
        tr == TraceOf("False", TRUE, FALSE, <<>>, None)
    IN  IF today_foods = <<>>
        THEN Outcome(health_goals, food_logs, remote_goals, remote_foods,
                     NoFoodResult(TRUE), tr)
        ELSE IF total_calories = None
        THEN Outcome(health_goals, food_logs, remote_goals, remote_foods,
                     ErrorResult("get_food_log", "TypeError"),
                     [tr EXCEPT !.raised = Some("TypeError")])
        ELSE Outcome(health_goals, food_logs, remote_goals, remote_foods,
                     FoodLogResult(TRUE, blocks, total_calories,
                         Commentary(FindDailyCalorieGoal(health_goals),
                                    total_calories[1])),
                     tr)

get_food_log_remote(fail) ==
    LET today_foods == RemoteGetFoodLogs(remote_foods, today)
        blocks == MealBlocks(today_foods)
        total_calories == DailyTotal(blocks)
        goals == RemoteGetHealthGoals(remote_goals)
        ops1 == <<"get_food_logs">>
        ops2 == <<"get_food_logs", "get_health_goals">>
    IN  IF fail = "op1"
        THEN Outcome(health_goals, food_logs, remote_goals, remote_foods,
                     ErrorResult("get_food_log", "RemoteError"),
                     TraceOf("True", FALSE, FALSE, ops1, Some("get_food_logs")))
        ELSE IF today_foods = <<>>
        THEN Outcome(health_goals, food_logs, remote_goals, remote_foods,
                     NoFoodResult(FALSE),
                     TraceOf("True", FALSE, FALSE, ops1, None))
        ELSE IF total_calories = None
        THEN Outcome(health_goals, food_logs, remote_goals, remote_foods,
                     ErrorResult("get_food_log", "TypeError"),
                     TraceOf("True", FALSE, FALSE, ops1, Some("TypeError")))
        ELSE IF fail = "op2"
        THEN Outcome(health_goals, food_logs, remote_goals, remote_foods,
                     FoodLogResult(FALSE, blocks, total_calories, None),
                     TraceOf("True", FALSE, FALSE, ops2, Some("get_health_goals")))
        ELSE Outcome(health_goals, food_logs, remote_goals, remote_foods,
                     FoodLogResult(FALSE, blocks, total_calories,
                         Commentary(FindDailyCalorieGoal(goals),
                                    total_calories[1])),
                     TraceOf("True", FALSE, FALSE, ops2, None))

get_food_log(fail) ==
    IF fail = "is_connected" THEN ConnectFailure("get_food_log")
    ELSE IF UseRemote THEN get_food_log_remote(fail)
    ELSE get_food_log_local

\* ----------------------------------------------------------------- actions
Init ==
    /\ connected \in BOOLEAN
    /\ today = 0
    /\ health_goals = <<>>
    /\ food_logs = <<>>
    /\ remote_goals = <<>>
    /\ remote_foods = <<>>
    /\ result = NoResult
    /\ trace = NoTrace
    /\ updated = {}

\* The call returns: the stores are as the call left them.
Return(out, args) ==
    /\ health_goals' = out.health_goals
    /\ food_logs' = out.food_logs
    /\ remote_goals' = out.remote_goals
    /\ remote_foods' = out.remote_foods
    /\ result' = out.result
    /\ trace' = [out.trace EXCEPT !.args = args]
    /\ UNCHANGED <<connected, today>>

UpdatedTexts == {"Health goal updated successfully!", "Health goal updated successfully! (Local Storage)"}

AddHealthGoal(goal_type, target_value, description, daily_calorie_goal, fail) ==
    /\ Return(add_health_goal(goal_type, target_value, description, daily_calorie_goal, fail), <<goal_type, target_value, description, daily_calorie_goal>>)
    /\ UNCHANGED updated

UpdateHealthGoal(goal_id, target_value, current_value, description, fail) ==
    /\ Return(update_health_goal(goal_id, target_value, current_value, description, fail), <<goal_id, target_value, current_value, description>>)
    /\ updated' = IF result'.text \in UpdatedTexts THEN updated \cup {goal_id} ELSE updated

GetHealthGoals(fail) ==
    /\ Return(get_health_goals(fail), <<>>)
    /\ UNCHANGED updated

AddFoodLog(meal_type, food_item, calories, fail) ==
    /\ Return(add_food_log(meal_type, food_item, calories, fail), <<meal_type, food_item, calories>>)
    /\ UNCHANGED updated

GetFoodLog(fail) ==
    /\ Return(get_food_log(fail), <<>>)
    /\ UNCHANGED updated

\* The remote store becomes reachable or unreachable.
SetConnected ==
    /\ connected' = ~connected
    /\ UNCHANGED <<today, health_goals, food_logs, remote_goals, remote_foods, result, trace, updated>>

\* Midnight passes: date.today() moves on.
NextDay ==
    /\ today < MaxDay
    /\ today' = today + 1
    /\ UNCHANGED <<connected, health_goals, food_logs, remote_goals, remote_foods, result, trace, updated>>

\* ------------------------------------------------------------------ inputs
\* The goal ids a caller can name: the ones some store holds, and 0, which
\* no store ever generates.
KnownGoalIds ==
    {0} \cup {health_goals[i].goal_id : i \in 1..Len(health_goals)}
        \cup {remote_goals[i].goal_id : i \in 1..Len(remote_goals)}

\* A remote-store operation can only fail in a call that invokes one.
Fails == IF connected THEN FailPoints ELSE {"none", "is_connected"}

NumGoals == Len(health_goals) + Len(remote_goals)

NumFoods == Len(food_logs) + Len(remote_foods)

\* How many goals a call of add_health_goal can create.
Room(daily_calorie_goal) == IF Truthy(daily_calorie_goal) THEN 2 ELSE 1

\* ---------------------------------------------------------- specifications
\* Spec: the five tools with few argument values, the remote store becoming
\* reachable and unreachable, and every failure of the remote store.
Next ==
    \/ \E dcg \in {None, Some(2)}, f \in Fails :
          /\ NumGoals + NumFoods + Room(dcg) <= MaxRecords
          /\ AddHealthGoal("Weight", 2, None, dcg, f)
    \/ \E id \in KnownGoalIds, f \in Fails :
          UpdateHealthGoal(id, Some(0), None, None, f)
    \/ \E f \in Fails : GetHealthGoals(f)
    \/ \E c \in {None, Some(1)}, f \in Fails :
          /\ NumGoals + NumFoods < MaxRecords
          /\ AddFoodLog("Lunch", "apple", c, f)
    \/ \E f \in Fails : GetFoodLog(f)
    \/ SetConnected

Spec == Init /\ [][Next]_vars

\* SpecGoals: the three goal tools over more goal values.
NextGoals ==
    \/ \E tv \in {-1, 0, 2}, dcg \in {None, Some(0), Some(2)} :
          /\ NumGoals + Room(dcg) <= MaxGoals
          /\ AddHealthGoal("Weight", tv, None, dcg, "none")
    \/ \E id \in KnownGoalIds, u \in {<<Some(0), None, None>>, <<None, Some(1), None>>, <<Some(0), Some(1), Some("d")>>} :
          UpdateHealthGoal(id, u[1], u[2], u[3], "none")
    \/ GetHealthGoals("none")
    \/ SetConnected

SpecGoals == Init /\ [][NextGoals]_vars

\* SpecAdd: add_health_goal over its argument values and the failures of
\* the remote store.
NextAdd ==
    \/ \E gt \in {"Weight", "Daily_Calories"}, dcg \in {None, Some(0), Some(2)}, f \in Fails :
          /\ NumGoals + Room(dcg) <= MaxAddGoals
          /\ AddHealthGoal(gt, 70, None, dcg, f)
    \/ GetHealthGoals("none")
    \/ SetConnected

SpecAdd == Init /\ [][NextAdd]_vars

\* SpecUpdate: update_health_goal with every choice of supplied fields, in
\* stores that hold goals and food.
NextUpdate ==
    \/ /\ NumGoals < MaxUpdateGoals
       /\ AddHealthGoal("Weight", 2, None, None, "none")
    \/ /\ NumFoods < 1
       /\ AddFoodLog("Lunch", "apple", Some(1), "none")
    \/ \E id \in KnownGoalIds, tv \in {None, Some(0)}, cv \in {None, Some(1)}, d \in {None, Some("d")} :
          UpdateHealthGoal(id, tv, cv, d, "none")

SpecUpdate == Init /\ [][NextUpdate]_vars

\* SpecFood: the two food tools over several days and meals.
NextFood ==
    \/ /\ NumGoals < 1
       /\ AddHealthGoal("Weight", 70, None, Some(2), "none")
    \/ \E m \in {"Lunch", "dinner"}, c \in {None, Some(1), Some(2)} :
          /\ NumFoods < MaxFoods
          /\ AddFoodLog(m, "apple", c, "none")
    \/ GetFoodLog("none")
    \/ NextDay

SpecFood == Init /\ [][NextFood]_vars

\* SpecCalories: the two food tools with several daily calorie goals.
NextCalories ==
    \/ \E gt \in {"Weight", "daily_calories"}, tv \in {-1, 0, 2} :
          /\ NumGoals < MaxCalorieGoals
          /\ AddHealthGoal(gt, tv, None, None, "none")
    \/ \E c \in {None, Some(1), Some(2)} :
          /\ NumFoods < MaxFoods
          /\ AddFoodLog("Lunch", "apple", c, "none")
    \/ GetFoodLog("none")

SpecCalories == Init /\ [][NextCalories]_vars

\* SpecLog: the five tools around the food log, over several days and both
\* backends.
NextLog ==
    \/ /\ NumGoals < 1
       /\ AddHealthGoal("Weight", 2, None, None, "none")
    \/ \E id \in KnownGoalIds : UpdateHealthGoal(id, Some(0), None, None, "none")
    \/ GetHealthGoals("none")
    \/ \E m \in {"Lunch", "dinner"}, c \in {None, Some(1)}, f \in {"none", "is_connected"} :
          /\ NumFoods < MaxLogFoods
          /\ AddFoodLog(m, "apple", c, f)
    \/ GetFoodLog("none")
    \/ SetConnected
    \/ NextDay

SpecLog == Init /\ [][NextLog]_vars

\* SpecEarliest: several "daily_calories" goals, added under either
\* spelling or as the daily_calorie_goal of another goal and then updated,
\* and the two food tools.
NextEarliest ==
    \/ \E gt \in {"Weight", "Daily_Calories"}, dcg \in {None, Some(1)} :
          /\ NumGoals + Room(dcg) <= MaxEarliestGoals
          /\ AddHealthGoal(gt, 2, None, dcg, "none")
    \/ \E id \in KnownGoalIds, tv \in {Some(0), Some(4)} :
          UpdateHealthGoal(id, tv, None, None, "none")
    \/ /\ NumFoods < MaxEarliestFoods
       /\ AddFoodLog("Lunch", "apple", Some(3), "none")
    \/ GetFoodLog("none")

SpecEarliest == Init /\ [][NextEarliest]_vars

\* ============================================================== properties
\* A step that is a tool call: the environment's steps change connected or
\* today, a call changes neither.
CallStep == connected' = connected /\ today' = today

\* The texts only the local branches return.
LocalTexts ==
    {"Health goal added successfully! (Local Storage)",
     "Health goal updated successfully! (Local Storage)",
     "Health goal not found",
     "No active health goals found. Add a goal to get started! (Local Storage)",
     "Active Health Goals (Local Storage)",
     "Food logged successfully! (Local Storage)",
     "Today's Food Log (Local Storage)",
     "No food logged today (Local Storage)"}

\* The texts only the remote branches return.
RemoteTexts ==
    {"Health goal added successfully!",
     "Health goal updated successfully!",
     "Health goal not found or update failed",
     "No active health goals found. Add a goal to get started!",
     "Active Health Goals",
     "Food logged successfully!",
     "Today's Food Log",
     "No food logged today"}

\* "Error <doing X>", per tool.
OwnErrorText ==
    [add_health_goal |-> "Error adding health goal",
     update_health_goal |-> "Error updating health goal",
     get_health_goals |-> "Error getting health goals",
     add_food_log |-> "Error adding food log",
     get_food_log |-> "Error getting food log"]

ErrorTexts == {OwnErrorText[op] : op \in DOMAIN OwnErrorText}

\* The remote-store data operations.
RemoteOps ==
    {"add_health_goal", "update_health_goal", "get_health_goals",
     "add_food_log", "get_food_logs"}

\* A remote-store data operation raised in the last call.
RemoteRaised == trace.raised # None /\ trace.raised[1] \in RemoteOps

\* The last call is add_food_log or get_food_log and what raised in it is
\* the goal lookup of its inner try / except.
GoalLookupFailed ==
    /\ result.op \in {"add_food_log", "get_food_log"}
    /\ trace.raised = Some("get_health_goals")

\* A day's total with an absent calorie count taken as 0.
RECURSIVE SumAbsentAsZero(_)
SumAbsentAsZero(foods) ==
    IF foods = <<>> THEN 0
    ELSE (IF Head(foods).calories = None THEN 0 ELSE Head(foods).calories[1])
         + SumAbsentAsZero(Tail(foods))

DayFoods(foods, d) == SelectSeq(foods, LAMBDA f : f.date = d)

\* --------------------------------------------------------------------- C1
\* C1: after add_food_log on the local backend, the reported "Today's Total
\* Calories" is the sum of the calories of all entries logged that day, an
\* absent calories value counting as 0.
C1_TotalCountsAbsentAsZero ==
    (result.op = "add_food_log" /\ trace.is_connected = "False")
        => result.total = Some(SumAbsentAsZero(DayFoods(food_logs, trace.today)))

\* --------------------------------------------------------------------- C2
\* C2: every call is serviced by the backend that is_connected() names
\* during that call, whatever earlier calls saw: a call made while connected
\* leaves health_goals and food_logs unread and unwritten and returns no
\* local text; a call made while disconnected invokes no remote-store
\* operation, leaves the remote store alone and returns a local text.
C2_BackendChosenPerCall ==
    [][(CallStep /\ trace'.is_connected # "raise") =>
         /\ trace'.is_connected = (IF connected THEN "True" ELSE "False")
         /\ connected =>
              /\ ~trace'.local_read /\ ~trace'.local_write
              /\ UNCHANGED <<health_goals, food_logs>>
              /\ result'.text \in RemoteTexts \cup ErrorTexts
         /\ ~connected =>
              /\ trace'.remote_ops = <<>>
              /\ UNCHANGED <<remote_goals, remote_foods>>
              /\ result'.text \in LocalTexts \cup ErrorTexts]_vars

\* A call serviced by the remote store after the local store served an
\* earlier one: it does not see the local goal.
C2_Witness ==
    /\ connected
    /\ trace.is_connected = "True"
    /\ health_goals # <<>>
    /\ result.text = "No active health goals found. Add a goal to get started!"

\* --------------------------------------------------------------------- C3
\* C3 as stated: whenever a remote-store operation raises in a call made
\* while connected, the caller gets the failure text and the local
\* structures are untouched.
C3_RemoteFailureIsReported ==
    (trace.is_connected = "True" /\ RemoteRaised)
        => /\ result.text \in ErrorTexts
           /\ ~trace.local_read /\ ~trace.local_write

\* C3 amended: a remote-store operation raising in a call made while
\* connected never falls back to the local backend (health_goals and
\* food_logs are neither read nor changed, no local text is returned), and
\* the caller gets the tool's failure text, except when what raised is the
\* goal lookup of add_food_log or get_food_log: that failure is swallowed
\* and the success text is returned without the goal commentary.
C3_NoFallback ==
    [][(CallStep /\ RemoteRaised') =>
         /\ trace'.is_connected = "True"
         /\ UNCHANGED <<health_goals, food_logs>>
         /\ ~trace'.local_read /\ ~trace'.local_write
         /\ IF GoalLookupFailed'
            THEN /\ result'.text \in {"Food logged successfully!", "Today's Food Log"}
                 /\ result'.commentary = None
            ELSE result'.text = OwnErrorText[result'.op]]_vars

\* A remote insert failed while the local list already held an entry.
C3_Witness ==
    /\ trace.is_connected = "True"
    /\ trace.raised = Some("add_food_log")
    /\ result.text = "Error adding food log"
    /\ food_logs # <<>>

\* The goals and the food of the backend that serves a call made now ...
ActiveGoals == IF connected THEN remote_goals ELSE health_goals

PassiveGoals == IF connected THEN health_goals ELSE remote_goals

\* ... and of the backend that served the last call.
ServedGoals ==
    IF trace.is_connected = "True" THEN remote_goals ELSE health_goals

ServedFoods ==
    IF trace.is_connected = "True" THEN remote_foods ELSE food_logs

GoalIds(goals) == {goals[i].goal_id : i \in 1..Len(goals)}

AddedTexts ==
    {"Health goal added successfully!",
     "Health goal added successfully! (Local Storage)"}

NotFoundTexts ==
    {"Health goal not found", "Health goal not found or update failed"}

\* --------------------------------------------------------------------- C4
\* C4: update_health_goal with a goal_id the active backend does not hold
\* returns the not-found text and leaves every store as it was (no record
\* is created, no stored goal changes), whatever fields were supplied.
C4_UnknownIdCreatesNothing ==
    [][(/\ CallStep
        /\ result'.op = "update_health_goal"
        /\ trace'.args[1] \notin GoalIds(ActiveGoals)) =>
         /\ result'.text \in NotFoundTexts
         /\ (~connected) => result'.text = "Health goal not found"
         /\ UNCHANGED <<health_goals, remote_goals, food_logs, remote_foods>>]_vars

\* The local backend was asked to update, with every field supplied, an id
\* that only the remote store holds.
C4_Witness ==
    /\ result.text = "Health goal not found"
    /\ trace.args = <<-1, Some(0), Some(1), Some("d")>>
    /\ health_goals # <<>>
    /\ remote_goals # <<>>

\* --------------------------------------------------------------------- C5
\* What get_health_goals shows: every goal its backend holds is listed, and
\* a goal no update has targeted is shown with current value 0 and progress
\* 0; the local listing never fails.
C5_ListsStoredGoals ==
    result.op = "get_health_goals" =>
        /\ trace.is_connected = "False" => result.text \notin ErrorTexts
        /\ result.text \notin ErrorTexts =>
             \A i \in 1..Len(ServedGoals) :
                \E j \in 1..Len(result.goals) :
                   /\ result.goals[j].goal_id = ServedGoals[i].goal_id
                   /\ ServedGoals[i].goal_id \notin updated =>
                        /\ result.goals[j].current_value = 0
                        /\ result.goals[j].progress = 0

\* What a successful add_health_goal leaves: the goals it names are held by
\* its backend.
C5_AddedGoalsAreStored ==
    (result.op = "add_health_goal" /\ result.text \in AddedTexts) =>
        \A k \in 1..Len(result.ids) : result.ids[k] \in GoalIds(ServedGoals)

\* No step removes a goal, and only a successful update of a goal's id
\* changes its current value.
C5_GoalsStay ==
    \A i \in 1..Len(health_goals) + Len(remote_goals) :
       LET local == i <= Len(health_goals)
           k == IF local THEN i ELSE i - Len(health_goals)
           old == IF local THEN health_goals[k] ELSE remote_goals[k]
           now == IF local THEN health_goals' ELSE remote_goals'
       IN  /\ Len(now) >= k
           /\ now[k].goal_id = old.goal_id
           /\ old.goal_id \notin updated' =>
                now[k].current_value = old.current_value

\* C5: after add_health_goal succeeds on a backend, every later
\* get_health_goals of that backend lists the goal, whatever calls happen
\* in between; until an update_health_goal targets its id it is shown with
\* current value 0 and progress 0%, for every target value.
C5_AddedGoalsAreListed ==
    /\ [](C5_ListsStoredGoals /\ C5_AddedGoalsAreStored)
    /\ [][C5_GoalsStay]_vars

\* A listing that shows a goal with a negative target that no update has
\* touched beside one an update has moved.
C5_Witness ==
    /\ result.op = "get_health_goals"
    /\ \E i, j \in 1..Len(result.goals) :
          /\ result.goals[i].goal_id \notin updated
          /\ result.goals[i].target_value = -1
          /\ result.goals[j].goal_id \in updated
          /\ result.goals[j].current_value = 1

\* --------------------------------------------------------------------- C6
\* The goal types the callers pass, lower-cased.
LowerCased == [Weight |-> "weight", Daily_Calories |-> "daily_calories", daily_calories |-> "daily_calories"]

\* What a successful add_health_goal does to its backend, a supplied
\* daily_calorie_goal of 0 counting as supplied or not (zeroCounts).
AddCreates(zeroCounts) ==
    (/\ CallStep
     /\ result'.op = "add_health_goal"
     /\ result'.text \in AddedTexts) =>
        LET old == ActiveGoals
            new == ActiveGoals'
            n == Len(old)
            dcg == trace'.args[4]
            supplied == dcg # None /\ (zeroCounts \/ dcg[1] # 0)
        IN  /\ UNCHANGED PassiveGoals
            /\ Len(new) = n + (IF supplied THEN 2 ELSE 1)
            /\ SubSeq(new, 1, n) = old
            /\ new[n + 1].goal_type = LowerCased[trace'.args[1]]
            /\ new[n + 1].target_value = trace'.args[2]
            /\ new[n + 1].goal_id \notin GoalIds(old)
            /\ ~supplied => result'.ids = <<new[n + 1].goal_id>>
            /\ supplied =>
                 /\ new[n + 2].goal_type = "daily_calories"
                 /\ new[n + 2].target_value = dcg[1]
                 /\ new[n + 2].goal_id \notin GoalIds(old) \cup {new[n + 1].goal_id}
                 /\ result'.ids = <<new[n + 1].goal_id, new[n + 2].goal_id>>

C7_UpdateChangesOnlySupplied ==
    [][(/\ CallStep
        /\ result'.op = "update_health_goal"
        /\ result'.text \in UpdatedTexts) =>
         LET old == ActiveGoals
             new == ActiveGoals'
             id == trace'.args[1]
             tv == trace'.args[2]
             cv == trace'.args[3]
             d == trace'.args[4]
         IN  /\ UNCHANGED <<PassiveGoals, food_logs, remote_foods>>
             /\ Len(new) = Len(old)
             /\ id \in GoalIds(old)
             /\ \A i \in 1..Len(old) :
                   IF old[i].goal_id # id THEN new[i] = old[i]
                   ELSE /\ DOMAIN new[i] = DOMAIN old[i]
                        /\ \A k \in DOMAIN old[i] \ {"target_value", "current_value", "description"} :
                              new[i][k] = old[i][k]
                        /\ new[i].target_value =
                              IF tv = None THEN old[i].target_value ELSE tv[1]
                        /\ new[i].current_value =
                              IF cv = None THEN old[i].current_value ELSE cv[1]
                        /\ new[i].description =
                              IF d = None THEN old[i].description ELSE d]_vars

\* An update that supplied only current_value, on a goal whose target and
\* description earlier updates had set, in a store with a second goal and
\* a food entry.
C7_Witness ==
    /\ result.text = "Health goal updated successfully! (Local Storage)"
    /\ trace.args = <<1, None, Some(1), None>>
    /\ Len(health_goals) = 2
    /\ health_goals[1].target_value = 0
    /\ health_goals[1].current_value = 1
    /\ health_goals[1].description = Some("d")
    /\ food_logs # <<>>

\* --------------------------------------------------------------------- C8
\* The positions of the "daily_calories" goals of a store.
DailyGoals(goals) ==
    {i \in 1..Len(goals) : goals[i].goal_type = "daily_calories"}

EarliestDailyGoal(goals) ==
    goals[CHOOSE i \in DailyGoals(goals) : \A j \in DailyGoals(goals) : i <= j]

\* The texts that carry a food report.
ReportTexts ==
    {"Food logged successfully!", "Food logged successfully! (Local Storage)",
     "Today's Food Log", "Today's Food Log (Local Storage)"}

\* The commentary reports the progress against target T of a day's total C.
ReportsAgainst(T, C) ==
    /\ result.commentary # None
    /\ result.commentary[1].goal = T
    /\ C < T => /\ result.commentary[1].line = "Remaining"
                /\ result.commentary[1].amount = T - C
    /\ C > T => /\ result.commentary[1].line = "Over goal by"
                /\ result.commentary[1].amount = C - T

\* C8 as stated: whenever the backend holds a "daily_calories" goal,
\* add_food_log and get_food_log report the progress of the day's total
\* against that goal's target.
C8_ProgressWheneverGoalExists ==
    (/\ result.op \in {"add_food_log", "get_food_log"}
     /\ DailyGoals(ServedGoals) # {}) =>
        \E i \in DailyGoals(ServedGoals) :
           ReportsAgainst(ServedGoals[i].target_value,
                          SumAbsentAsZero(DayFoods(ServedFoods, trace.today)))

\* C8 amended: when add_food_log or get_food_log returns a food report (not
\* an error text, not the "No food logged today" indicator), its goal lookup
\* did not fail, and the target T of the earliest-created "daily_calories"
\* goal of the backend is not 0, the report gives the day's total C and
\* "Remaining" T - C when C < T, "Over goal by" C - T when C > T; in every
\* other case no goal progress is reported.
C8_ProgressAgainstEarliestGoal ==
    result.op \in {"add_food_log", "get_food_log"} =>
        IF /\ result.text \in ReportTexts
           /\ ~GoalLookupFailed
           /\ DailyGoals(ServedGoals) # {}
           /\ EarliestDailyGoal(ServedGoals).target_value # 0
        THEN /\ result.total = Some(SumAbsentAsZero(DayFoods(ServedFoods, trace.today)))
             /\ ReportsAgainst(EarliestDailyGoal(ServedGoals).target_value,
                               result.total[1])
        ELSE result.commentary = None

\* Goal 2, total 3: over goal by 1, the goal being the second goal stored.
C8_Witness ==
    /\ result.op = "add_food_log"
    /\ result.total = Some(3)
    /\ result.commentary # None
    /\ result.commentary[1].goal = 2
    /\ result.commentary[1].line = "Over goal by"
    /\ result.commentary[1].amount = 1
    /\ DailyGoals(ServedGoals) = {2}

\* --------------------------------------------------------------------- C9
\* C9 as stated: any exception raised in a tool makes it return its own
\* "Error <doing X>" text.
C9_EveryExceptionBecomesErrorText ==
    (result.op # "none" /\ trace.raised # None)
        => result.text = OwnErrorText[result.op]

\* C9 amended: every call returns a text; an exception raised in it makes
\* the tool return "Error <doing X>" with its own label, except an exception
\* raised in the goal lookup of add_food_log or get_food_log on the remote
\* branch, which is swallowed (the success text is returned without goal
\* commentary); and no error text is returned when nothing raised.
C9_ErrorsBecomeText ==
    result.op # "none" =>
        /\ result.text \in LocalTexts \cup RemoteTexts \cup ErrorTexts
        /\ trace.raised = None => result.text \notin ErrorTexts
        /\ trace.raised # None =>
             IF GoalLookupFailed
             THEN /\ result.text \in {"Food logged successfully!", "Today's Food Log"}
                  /\ result.commentary = None
             ELSE result.text = OwnErrorText[result.op]

\* The TypeError of the local add_food_log came back as its error text.
C9_Witness ==
    /\ result.op = "add_food_log"
    /\ trace.is_connected = "False"
    /\ trace.raised = Some("TypeError")
    /\ result.text = "Error adding food log"


\* -------------------------------------------------------------------- C10
\* p tenths of a percent is c / t x 100 to the nearest tenth.
IsPercentOf(p, c, t) == 2 * Abs(p * t - c * 1000) <= Abs(t)

\* The progress of every listed goal is current / target x 100, and 0 for
\* the targets in zeroed; listing never fails.
ProgressShown(zeroed) ==
    result.op = "get_health_goals" =>
        /\ trace.raised # Some("ZeroDivisionError")
        /\ \A i \in 1..Len(result.goals) :
              IF result.goals[i].target_value \in zeroed
              THEN result.goals[i].progress = 0
              ELSE IsPercentOf(result.goals[i].progress,
                               result.goals[i].current_value,
                               result.goals[i].target_value)

\* C10 as stated: progress is current / target x 100, and 0 when the target
\* is 0.
C10_ProgressZeroOnlyAtZero == ProgressShown({0})

\* C10 amended: progress is current / target x 100 when the target is
\* positive and 0 when the target is 0 or negative, so listing goals never
\* divides by zero.
C10_ProgressZeroAtNonPositive == ProgressShown({t \in Int : t <= 0})

\* A listing with a goal of target 0 and current value 1 (progress 0) and a
\* goal of target 2 and current value 1 (progress 50.0).
C10_Witness ==
    /\ result.op = "get_health_goals"
    /\ \E i, j \in 1..Len(result.goals) :
          /\ result.goals[i].target_value = 0
          /\ result.goals[i].current_value = 1
          /\ result.goals[i].progress = 0
          /\ result.goals[j].target_value = 2
          /\ result.goals[j].current_value = 1
          /\ result.goals[j].progress = 500

\* -------------------------------------------------------------------- C11
\* The texts of a food-log block and of a logged entry.
FoodLogTexts == {"Today's Food Log", "Today's Food Log (Local Storage)"}

FoodLoggedTexts ==
    {"Food logged successfully!", "Food logged successfully! (Local Storage)"}

\* The ids of the entries of one meal, in the order the store holds them.
MealIds(foods, meal_type) ==
    LET mine == SelectSeq(foods, LAMBDA f : Title(f.meal_type) = meal_type)
    IN  [i \in 1..Len(mine) |-> mine[i].food_id]

\* The sum of the subtotals of the meal blocks of a report.
RECURSIVE SubtotalSum(_)
SubtotalSum(blocks) ==
    IF blocks = <<>> THEN 0
    ELSE (IF Head(blocks).meal_calories = None THEN 0
          ELSE Head(blocks).meal_calories[1]) + SubtotalSum(Tail(blocks))

\* The report groups the entries of a day by meal, each group in the order
\* of the store, and its Daily Total is the sum of the subtotals.
GroupsDay(day) ==
    /\ result.text \in FoodLogTexts
    /\ \A i, j \in 1..Len(result.meals) :
          result.meals[i].meal_type = result.meals[j].meal_type => i = j
    /\ \A k \in 1..Len(day) : \E i \in 1..Len(result.meals) :
          result.meals[i].meal_type = Title(day[k].meal_type)
    /\ \A i \in 1..Len(result.meals) :
          /\ result.meals[i].foods # <<>>
          /\ [k \in 1..Len(result.meals[i].foods) |->
                 result.meals[i].foods[k].food_id]
                = MealIds(day, result.meals[i].meal_type)
    /\ result.total = Some(SubtotalSum(result.meals))

\* get_food_log follows, on the same day and backend, the add_food_log that
\* logged the most recent entry.
ReadsBackLastAdd ==
    /\ CallStep
    /\ result.op = "add_food_log"
    /\ result'.op = "get_food_log"
    /\ trace'.is_connected = trace.is_connected
    /\ trace'.today = trace.today

\* C11: whenever the serving backend holds an entry of the current day,
\* get_food_log returns a report that groups the day's entries by meal in
\* insertion order with a Daily Total equal to the sum of the subtotals,
\* and that total and the goal commentary are the ones add_food_log gave
\* when it logged the most recent entry.
C11_LogAgreesWithLastAdd ==
    /\ []((/\ result.op = "get_food_log"
           /\ trace.is_connected \in {"True", "False"}
           /\ DayFoods(ServedFoods, trace.today) # <<>>)
              => GroupsDay(DayFoods(ServedFoods, trace.today)))
    /\ [][ReadsBackLastAdd =>
             /\ result'.total = result.total
             /\ result'.commentary = result.commentary]_vars

\* -------------------------------------------------------------------- C12
NoFoodTexts == {"No food logged today", "No food logged today (Local Storage)"}

\* C12: get_food_log returns the "No food logged today" indicator exactly
\* when the serving backend holds no entry dated to the current day
\* (entries of earlier days do not count), and a food-log block with a
\* Daily Total whenever it holds at least one.
C12_NoFoodExactlyWhenDayEmpty ==
    (result.op = "get_food_log" /\ trace.is_connected \in {"True", "False"}) =>
        LET day == DayFoods(ServedFoods, trace.today)
        IN  /\ result.text \in NoFoodTexts <=> day = <<>>
            /\ day # <<>> => /\ result.text \in FoodLogTexts
                             /\ result.total # None

\* -------------------------------------------------------------------- C13
\* The entry a call of add_food_log appends to the local list.
AppendedEntry(args, d) ==
    /\ Len(food_logs') = Len(food_logs) + 1
    /\ SubSeq(food_logs', 1, Len(food_logs)) = food_logs
    /\ LET e == food_logs'[Len(food_logs')]
       IN  /\ e.date = d
           /\ e.meal_type = Lower(args[1])
           /\ e.food_item = args[2]
           /\ e.calories = args[3]
           /\ \A i \in 1..Len(food_logs) : food_logs[i].food_id # e.food_id

\* C13: the local food log is append-only.  Every step keeps each stored
\* entry (id, meal_type, food_item, calories, date) at its position; an
\* add_food_log serviced by the local backend appends exactly one entry,
\* dated to the current day, with meal_type lower-cased; every other step
\* (the other four tools, an add_food_log serviced by the remote store or
\* stopped by the connectivity check, a change of day or connectivity)
\* leaves the list as it was.
C13_FoodLogAppendOnly ==
    [][IF /\ CallStep
          /\ result'.op = "add_food_log"
          /\ trace'.is_connected = "False"
       THEN AppendedEntry(trace'.args, today)
       ELSE food_logs' = food_logs]_vars

\* A second entry was appended on the second day, behind one of the first
\* day, with its meal type lower-cased; the call reported an error (the
\* calorie count was absent) and the entry is stored all the same.
C13_Witness ==
    /\ result.op = "add_food_log"
    /\ trace.is_connected = "False"
    /\ trace.args = <<"Lunch", "apple", None>>
    /\ today = 1
    /\ Len(food_logs) = 2
    /\ food_logs[1].date = 0 /\ food_logs[1].meal_type = "dinner"
    /\ food_logs[2].date = 1 /\ food_logs[2].meal_type = "lunch"
    /\ food_logs[2].food_id # food_logs[1].food_id

\* -------------------------------------------------------------------- C14
\* C14: a call of add_health_goal, update_health_goal or add_food_log that
\* returns its "Error ..." text has changed nothing: the goals and the food
\* entries of both backends are what they were before the call.
C14_ErrorChangesNothing ==
    [][(/\ CallStep
        /\ result'.op \in {"add_health_goal", "update_health_goal", "add_food_log"}
        /\ result'.text = OwnErrorText[result'.op]) =>
         UNCHANGED <<health_goals, food_logs, remote_goals, remote_foods>>]_vars

\* -------------------------------------------------------------------- C15
\* The last call is a food report of the local backend.
LocalFoodReport ==
    /\ result.op \in {"add_food_log", "get_food_log"}
    /\ trace.is_connected = "False"
    /\ result.text \in ReportTexts

\* The step is a successful local update_health_goal of goal id that
\* supplies a target.
UpdatesTargetOf(id) ==
    /\ CallStep
    /\ result'.text = "Health goal updated successfully! (Local Storage)"
    /\ trace'.args[1] = id
    /\ trace'.args[2] # None

\* C15: with one or more "daily_calories" goals in the local store,
\* whatever the letter case they were added under, the goal commentary of
\* add_food_log and get_food_log is computed against the target of the
\* earliest-created of them (and is left out when that target is 0, never
\* taken from a later goal); no step changes which goal that is, and its
\* target changes only by an update_health_goal on its id that supplies
\* a target.
C15_EarliestDailyGoalDecides ==
    /\ [](LocalFoodReport =>
            IF DailyGoals(health_goals) # {}
               /\ EarliestDailyGoal(health_goals).target_value # 0
            THEN /\ result.commentary # None
                 /\ result.commentary[1].goal
                       = EarliestDailyGoal(health_goals).target_value
            ELSE result.commentary = None)
    /\ [][DailyGoals(health_goals) # {} =>
             /\ DailyGoals(health_goals') # {}
             /\ EarliestDailyGoal(health_goals').goal_id
                   = EarliestDailyGoal(health_goals).goal_id
             /\ IF UpdatesTargetOf(EarliestDailyGoal(health_goals).goal_id)
                THEN EarliestDailyGoal(health_goals').target_value
                        = trace'.args[2][1]
                ELSE EarliestDailyGoal(health_goals').target_value
                        = EarliestDailyGoal(health_goals).target_value]_vars

\* Three "daily_calories" goals in the local store: the earliest came in as
\* the daily_calorie_goal of a weight goal and was then updated to 4, the
\* later one was added as "Daily_Calories" with target 2; the report
\* measures the day's 3 calories against 4.
C15_Witness ==
    /\ LocalFoodReport
    /\ Len(health_goals) = 3
    /\ health_goals[1].goal_type = "weight"
    /\ health_goals[2].goal_type = "daily_calories"
    /\ health_goals[2].target_value = 4
    /\ health_goals[3].goal_type = "daily_calories"
    /\ health_goals[3].target_value = 2
    /\ trace.args = <<"Lunch", "apple", Some(3)>>
    /\ result.commentary # None
    /\ result.commentary[1].goal = 4
    /\ result.commentary[1].line = "Remaining"
    /\ result.commentary[1].amount = 1

====
